---- MODULE Spec2Model ----
(***************************************************************************)
(* A model of the jkr codec (tahirmurata/jkr): Lua tables are serialised   *)
(* to a Lua table literal and DEFLATE-compressed (Marshal, MarshalWrite,   *)
(* Writer.Write) and read back by evaluating the literal in a Lua state    *)
(* (Unmarshal, UnmarshalRead, Reader.Read).                                *)
(*                                                                         *)
(* Texts are sequences of Lua tokens; a string token carries the bytes     *)
(* between its quotes, a number token its digits.  Strings are sequences   *)
(* of bytes (integers).                                                    *)
(***************************************************************************)
EXTENDS Integers, Sequences, FiniteSets, Bags, TLC

VARIABLES heap, pc, entry, stack, visited, ret, results, firstErr, late,
          outFails, input, edits, dec, out, dret, dresults

encVars == <<heap, pc, entry, stack, visited, ret, results, firstErr, late, outFails>>

decVars == <<input, edits, dec, out, dret, dresults>>

vars == <<encVars, outFails, decVars>>

(* ------------------------------ bounds -------------------------------- *)

\* Number of tables on the heap; table 1 is the one handed to the encoder.
NTables == 2

\* Total number of entries the caller has stored in the tables of the heap.
MaxEntries == 3

TableIds == 1..NTables

RootId == CHOOSE t \in TableIds : \A u \in TableIds : t <= u

\* Go's stack is finite: a recursion deeper than any acyclic chain of the
\* heap's tables never ends and overflows it.
MaxDepth == NTables + 1

(* --------------------------- the value model -------------------------- *)

\* lua.LValue: a kind (LValue.Type()) and a payload.
LV(kind, v) == [kind |-> kind, v |-> v]

LNil == LV("nil", <<>>)

LTrue == LV("bool", <<1>>)

LFalse == LV("bool", <<0>>)

\* lua.LNumber, a float64: the integers (class 0) and NaN (class 1).
LNumber(n) == LV("num", <<0, n>>)

LNaN == LV("num", <<1, 0>>)

LString(bytes) == LV("str", bytes)

LFunction == LV("func", <<>>)

LTableRef(id) == LV("table", <<id>>)

\* The bytes the model's strings are made of, by name.
Byte == [quote |-> 34, backslash |-> 92, newline |-> 10, ctl |-> 1, a |-> 97,
         i |-> 105, s |-> 115, x |-> 120, n |-> 110, zero |-> 48, minus |-> 45]

StrA == <<Byte.a>>

StrIs == <<Byte.i, Byte.s>>

\* A Lua table: a finite map from keys to values (LTable's array, strdict
\* and dict parts taken together).
EmptyTbl == [k \in {} |-> LNil]

Put(m, k, v) == [x \in (DOMAIN m) \cup {k} |-> IF x = k THEN v ELSE m[x]]

\* LTable.RawGetString(name): LNil when the key is absent.
RawGetString(m, name) ==
    IF LString(name) \in DOMAIN m THEN m[LString(name)] ELSE LNil

(* ------------------------------- tokens ------------------------------- *)

Tok(t, v) == [t |-> t, v |-> v]

P(t) == Tok(t, <<>>)

RECURSIVE Digits(_)
\* The decimal digits of a natural number, as bytes.
Digits(n) ==
    IF n < 10 THEN <<Byte.zero + n>>
    ELSE Digits(n \div 10) \o <<Byte.zero + (n % 10)>>

HexDigit(d) == IF d < 10 THEN Byte.zero + d ELSE Byte.a + (d - 10)

\* strconv.Quote on one byte of an ASCII string (what %q applies).
QuoteByte(c) ==
    CASE c = Byte.quote -> <<Byte.backslash, Byte.quote>>
      [] c = Byte.backslash -> <<Byte.backslash, Byte.backslash>>
      [] c = 7 -> <<Byte.backslash, 97>>
      [] c = 8 -> <<Byte.backslash, 98>>
      [] c = 12 -> <<Byte.backslash, 102>>
      [] c = 10 -> <<Byte.backslash, 110>>
      [] c = 13 -> <<Byte.backslash, 114>>
      [] c = 9 -> <<Byte.backslash, 116>>
      [] c = 11 -> <<Byte.backslash, 118>>
      [] c >= 32 /\ c <= 126 -> <<c>>
      [] OTHER -> <<Byte.backslash, Byte.x, HexDigit(c \div 16), HexDigit(c % 16)>>

RECURSIVE GoQuote(_)
\* fmt.Sprintf("%q", s) without the surrounding quotes.
GoQuote(s) ==
    IF s = <<>> THEN <<>> ELSE QuoteByte(Head(s)) \o GoQuote(Tail(s))

\* fmt.Sprintf("%v", n) for an LNumber, as the Lua lexer reads the text:
\* an integer prints as its decimal digits (a minus sign first when
\* negative), NaN prints as the word NaN, which Lua reads as a name.
FormatNumber(num) ==
    IF num.v[1] = 1 THEN <<Tok("name", <<78, 97, 78>>)>>
    ELSE IF num.v[2] < 0 THEN <<P("-"), Tok("num", Digits(0 - num.v[2]))>>
    ELSE <<Tok("num", Digits(num.v[2]))>>

ManualReplace == <<77, 65, 78, 85, 65, 76, 95, 82, 69, 80, 76, 65, 67, 69>>

(* ------------------------------- errors ------------------------------- *)

\* An error value by its message: the kind of the innermost error, the key
\* literal it names (unsupported value), and the key literals of the
\* "error packing table value for key %s" wrappers, outermost first.
Err(kind, key, wraps) == [kind |-> kind, key |-> key, wraps |-> wraps]

NoErr == Err("nil", <<>>, <<>>)

ErrCyclic == Err("cyclic", <<>>, <<>>)

ErrInvalidKey == Err("invalidkey", <<>>, <<>>)

\* Mutant: the unsupported-value error without the key.
ErrUnsupported_NoKey(k) == Err("unsupported", <<>>, <<>>)

ErrUnsupported(k) == Err("unsupported", k, <<>>)

Wrap(k, e) == [e EXCEPT !.wraps = <<k>> \o @]

RECURSIVE WrapAll(_, _)
\* e as it reaches the top-level caller through the suspended callbacks ks
\* (outermost first).
WrapAll(ks, e) ==
    IF ks = <<>> THEN e ELSE Wrap(Head(ks), WrapAll(Tail(ks), e))

(* ------------------------------ stringPack ---------------------------- *)

\* The entry points and the stringPack each uses: marshal.go's keeps a
\* visited set, the Writer's has none and stops at its first error.
EntryPoints == {"Marshal", "MarshalWrite", "Writer.Write"}

\* A run encodes its table with each entry point in turn.
CallOrder == <<"Marshal", "MarshalWrite", "Writer.Write">>

HasVisitedSet(e) == e \in {"Marshal", "MarshalWrite"}

\* The key switch of the ForEach callback: "[%q]" or "[%v]", <<>> for a key
\* that is neither a string nor a number.
KeyLiteral(key) ==
    CASE key.kind = "str" -> <<P("["), Tok("str", GoQuote(key.v)), P("]")>>
      [] key.kind = "num" -> <<P("[")>> \o FormatNumber(key) \o <<P("]")>>
      [] OTHER -> <<>>

\* Mutant: a key switch that lets every key through.
ValidKey_Any(key) == TRUE

ValidKey(key) == key.kind \in {"str", "num"}

\* The scalar cases of the value switch.
ScalarLiteral(val) ==
    CASE val.kind = "str" -> <<Tok("str", GoQuote(val.v))>>
      [] val.kind = "bool" -> IF val.v[1] = 1 THEN <<P("true")>> ELSE <<P("false")>>
      [] val.kind = "num" -> FormatNumber(val)
      [] OTHER -> <<>>

\* Mutant: no table is taken for an object.
IsObject_Never(h, t) == FALSE

\* tbl.RawGetString("is").Type() == lua.LTFunction
IsObject(h, t) == RawGetString(h[t], StrIs).kind = "func"

\* One stringPack activation: its table, whether it is a nested call, the
\* entries ForEach has not yet yielded, the builder, gerr / firstError and
\* the key literal of the entry whose table value is being packed.
Frame(t, rec, h) ==
    [tbl |-> t, recursive |-> rec, todo |-> DOMAIN h[t],
     b |-> (IF rec THEN <<>> ELSE <<P("return")>>) \o <<P("{")>>,
     gerr |-> NoErr, kpend |-> <<>>]

Top == stack[Len(stack)]

SetTop(f) == [stack EXCEPT ![Len(stack)] = f]

\* The key literals of the suspended callbacks, outermost first.
PendingKeys == [i \in 1..(Len(stack) - 1) |-> stack[i].kpend]

\* Mutant: no comma after the pair.
Pair_NoComma(k, v) == k \o <<P("=")>> \o v

Pair(k, v) == k \o <<P("=")>> \o v \o <<P(",")>>

\* What a call returned: how it ended ("ok", "error", or "overflow" when the
\* process died), the text the flate writer was given, the error, and two
\* records of the traversal: the first error raised, as it would have
\* reached the caller, and whether any entry was processed after it.
NoResult == [st |-> "none", text |-> <<>>, err |-> NoErr, first |-> NoErr,
             late |-> FALSE, bytes |-> [data |-> <<>>, final |-> FALSE]]

\* A DEFLATE stream by what it inflates to: the data written to the flate
\* writer, and whether Close has written the final block.
Deflated(data) == [data |-> data, final |-> TRUE]

\* The underlying writer (out, w.iw) starts to fail at a step of the flate
\* writer and fails from then on: in zw.Write, in zw.Flush, in the deferred
\* zw.Close, or never. Marshal's writer is a bytes.Buffer, which never
\* fails.
Faults == {"never", "write", "flush", "close"}

ErrWriter == Err("io", <<>>, <<>>)

\* `if _, err := zw.Write(...); err != nil { return err }` and
\* `return zw.Flush()`: the error the call returns once the text is packed.
WriteError(e, fault) ==
    IF e # "Marshal" /\ fault \in {"write", "flush"} THEN ErrWriter ELSE NoErr

\* `defer zw.Close()`: its error goes nowhere, err is already set.
CloseError(e, fault) == NoErr

\* Whether Close got the final block to the underlying writer.
Finalized(e, fault) == e = "Marshal" \/ fault = "never"

RECURSIVE TokenBag(_)
\* The tokens of a text with their multiplicities: what two texts that
\* differ only in the order of their entries have in common.
TokenBag(text) ==
    IF text = <<>> THEN EmptyBag ELSE SetToBag({Head(text)}) (+) TokenBag(Tail(text))

\* What is kept of a finished call to compare the entry points.
Summary(r) == [st |-> r.st, tokens |-> TokenBag(r.text)]

(* ------------------------- building the tables ------------------------ *)

Entries(h) == UNION {{<<t, k>> : k \in DOMAIN h[t]} : t \in TableIds}

\* The keys and values the caller stores before encoding: string keys (one
\* of them "is"), a boolean key, and as values a boolean, a function and
\* references to the heap's tables.
KeysEnc == {LString(StrA), LString(StrIs), LTrue}

ValsEnc == {LTrue, LFunction} \cup {LTableRef(t) : t \in TableIds}

RECURSIVE LinkedFrom(_, _)
LinkedFrom(h, S) ==
    LET S2 == S \cup {u \in TableIds : \E t \in S : \E k \in DOMAIN h[t] :
                                          h[t][k] = LTableRef(u)}
    IN  IF S2 = S THEN S ELSE LinkedFrom(h, S2)

\* The tables the root leads to: the encoder can see no other.
Linked(h) == LinkedFrom(h, {RootId})

\* The tables the caller has created: those in use and the next new one
\* (L.NewTable() hands out tables one after the other).
Created(h) ==
    LET linked == Linked(h)
    IN  {u \in TableIds : \A w \in TableIds : w < u => w \in linked}

\* LTable.RawSet(k, v) by the caller, before any encode: into a table the
\* root leads to, a value that is a scalar, a function or a created table;
\* no table with entries is left behind unlinked.
RawSet(keys, vals) ==
    /\ pc = "build"
    /\ LET linked == Linked(heap)
           created == Created(heap)
           n == Cardinality(Entries(heap))
       IN  \E t \in linked, k \in keys, v \in vals :
             /\ v.kind = "table" => v.v[1] \in created
             /\ n + (IF k \in DOMAIN heap[t] THEN 0 ELSE 1) <= MaxEntries
             /\ heap' = [heap EXCEPT ![t] = Put(@, k, v)]
             /\ (k \in DOMAIN heap[t] /\ heap[t][k].kind = "table")
                   => linked \subseteq Linked(heap')
    /\ UNCHANGED <<pc, entry, stack, visited, ret, results, firstErr, late, outFails, decVars>>

(* ------------------------------- encoding ----------------------------- *)

\* Mutant: stringPack without its cycle check.
AlreadyVisited_NoCheck(e, vis, t) == FALSE

\* visited[data] at the head of marshal.go's stringPack.
AlreadyVisited(e, vis, t) == HasVisitedSet(e) /\ t \in vis

\* Mutant: a visited set that keeps every table it has seen.
Leave_Keep(e, vis, t) == vis

\* `defer delete(visited, data)`: the table leaves the set when its
\* stringPack returns, with or without an error.
Leave(e, vis, t) == IF HasVisitedSet(e) THEN vis \ {t} ELSE vis

\* `if firstError != nil { return }` at the head of the Writer's callback;
\* the callback of marshal.go has no such guard.
SkipsEntry(e, f) == ~HasVisitedSet(e) /\ f.gerr # NoErr

\* Marshal / MarshalWrite / Writer.Write up to the first stringPack call.
Call(e) ==
    /\ pc \in {"build", "idle"}
    /\ \E i \in DOMAIN CallOrder :
         /\ CallOrder[i] = e
         /\ \A j \in DOMAIN CallOrder : results[CallOrder[j]].st = "none" <=> j >= i
    /\ pc' = "pack"
    /\ entry' = e
    /\ stack' = <<Frame(RootId, FALSE, heap)>>
    /\ visited' = IF HasVisitedSet(e) THEN {RootId} ELSE {}
    /\ firstErr' = NoErr
    /\ late' = FALSE
    /\ ret' = NoResult
    /\ UNCHANGED <<heap, results, outFails, decVars>>

\* The callback sets gerr / firstError and returns.
Fail(rest, e) ==
    /\ stack' = SetTop([rest EXCEPT !.gerr = e])
    /\ firstErr' = IF firstErr = NoErr THEN WrapAll(PendingKeys, e) ELSE firstErr
    /\ late' = (late \/ firstErr # NoErr)
    /\ UNCHANGED <<heap, pc, entry, visited, ret, results, outFails, decVars>>

\* The callback writes k, "=", v, "," to the builder.
Emit(rest, k, v) ==
    /\ stack' = SetTop([rest EXCEPT !.b = @ \o Pair(k, v)])
    /\ late' = (late \/ firstErr # NoErr)
    /\ UNCHANGED <<heap, pc, entry, visited, ret, results, firstErr, outFails, decVars>>

\* The callback calls stringPack(tbl, true, ...), which passes its cycle
\* check and opens its builder.
Descend(rest, k, t) ==
    /\ stack' = Append(SetTop([rest EXCEPT !.kpend = k]), Frame(t, TRUE, heap))
    /\ visited' = IF HasVisitedSet(entry) THEN visited \cup {t} ELSE visited
    /\ late' = (late \/ firstErr # NoErr)
    /\ UNCHANGED <<heap, pc, entry, ret, results, firstErr, outFails, decVars>>

\* The recursion exhausts the goroutine's stack: the process dies.
Overflow ==
    /\ pc' = "idle"
    /\ stack' = <<>>
    /\ visited' = {}
    /\ ret' = [NoResult EXCEPT !.st = "overflow", !.first = firstErr, !.late = late]
    /\ results' = [results EXCEPT ![entry] = Summary(ret')]
    /\ firstErr' = NoErr
    /\ late' = FALSE
    /\ UNCHANGED <<heap, entry, outFails, decVars>>

\* One call of the ForEach callback, on an entry ForEach has not yet
\* yielded (a table's entries come in no fixed order).
Visit ==
    /\ pc = "pack"
    /\ Top.todo # {}
    /\ \E key \in Top.todo :
         LET f == Top
             val == heap[f.tbl][key]
             k == KeyLiteral(key)
             rest == [f EXCEPT !.todo = @ \ {key}]
         IN  IF SkipsEntry(entry, f)
               THEN /\ stack' = SetTop(rest)
                    /\ UNCHANGED <<heap, pc, entry, visited, ret, results, firstErr, late, outFails, decVars>>
             ELSE IF ~ValidKey(key) THEN Fail(rest, ErrInvalidKey)
             ELSE IF val.kind = "table"
               THEN IF IsObject(heap, val.v[1])
                      THEN Emit(rest, k, <<Tok("str", ManualReplace)>>)
                    ELSE IF AlreadyVisited(entry, visited, val.v[1])
                      THEN Fail(rest, Wrap(k, ErrCyclic))
                    ELSE IF Len(stack) >= MaxDepth THEN Overflow
                    ELSE Descend(rest, k, val.v[1])
             ELSE IF val.kind \in {"str", "bool", "num"}
               THEN Emit(rest, k, ScalarLiteral(val))
             ELSE Fail(rest, ErrUnsupported(k))

\* A nested stringPack returns to the callback that called it: the deferred
\* delete runs, and the callback records the error or writes the pair.
Return ==
    /\ pc = "pack"
    /\ Len(stack) > 1
    /\ Top.todo = {}
    /\ LET f == Top
           parent == stack[Len(stack) - 1]
           k == parent.kpend
           resumed == IF f.gerr # NoErr
                        THEN [parent EXCEPT !.gerr = Wrap(k, f.gerr), !.kpend = <<>>]
                        ELSE [parent EXCEPT !.b = @ \o Pair(k, f.b \o <<P("}")>>),
                                            !.kpend = <<>>]
       IN  /\ stack' = Append(SubSeq(stack, 1, Len(stack) - 2), resumed)
           /\ visited' = Leave(entry, visited, f.tbl)
    /\ UNCHANGED <<heap, pc, entry, ret, results, firstErr, late, outFails, decVars>>

\* The outermost stringPack returns and the entry point finishes: on an
\* error it returns it, otherwise it writes the text to the flate writer.
Finish ==
    /\ pc = "pack"
    /\ Len(stack) = 1
    /\ Top.todo = {}
    /\ LET text == Top.b \o <<P("}")>>
           werr == IF WriteError(entry, outFails) # NoErr
                     THEN WriteError(entry, outFails)
                     ELSE CloseError(entry, outFails)
           final == Finalized(entry, outFails)
       IN  ret' = IF Top.gerr # NoErr
                    THEN [st |-> "error", text |-> <<>>, err |-> Top.gerr,
                          first |-> firstErr, late |-> late,
                          bytes |-> [data |-> <<>>, final |-> final]]
                  ELSE IF werr # NoErr
                    THEN [st |-> "error", text |-> text, err |-> werr,
                          first |-> firstErr, late |-> late,
                          bytes |-> [data |-> <<>>, final |-> FALSE]]
                  ELSE [st |-> "ok", text |-> text, err |-> NoErr,
                        first |-> firstErr, late |-> late,
                        bytes |-> [data |-> text, final |-> final]]
    /\ results' = [results EXCEPT ![entry] = Summary(ret')]
    /\ pc' = "idle"
    /\ stack' = <<>>
    /\ visited' = Leave(entry, visited, Top.tbl)
    /\ firstErr' = NoErr
    /\ late' = FALSE
    /\ UNCHANGED <<heap, entry, outFails, decVars>>

(* --------------------------- the Lua reader --------------------------- *)

\* The Lua state's lexer on the bytes between the quotes of a string token:
\* a backslash introduces a named escape, up to three decimal digits, or
\* stands for the character that follows it.
IsDigit(c) == c >= Byte.zero /\ c <= Byte.zero + 9

NamedEscape(c) ==
    CASE c = 97 -> 7
      [] c = 98 -> 8
      [] c = 102 -> 12
      [] c = 110 -> 10
      [] c = 114 -> 13
      [] c = 116 -> 9
      [] c = 118 -> 11
      [] OTHER -> c

RECURSIVE DecimalRun(_, _)
\* The digits (at most max of them) s starts with.
DecimalRun(s, max) ==
    IF max = 0 \/ s = <<>> \/ ~IsDigit(Head(s)) THEN <<>>
    ELSE <<Head(s)>> \o DecimalRun(Tail(s), max - 1)

RECURSIVE DecimalValue(_)
DecimalValue(ds) ==
    IF ds = <<>> THEN 0
    ELSE 10 * DecimalValue(SubSeq(ds, 1, Len(ds) - 1)) + (ds[Len(ds)] - Byte.zero)

RECURSIVE LuaUnquote(_)
LuaUnquote(s) ==
    IF s = <<>> THEN <<>>
    ELSE IF Head(s) # Byte.backslash THEN <<Head(s)>> \o LuaUnquote(Tail(s))
    ELSE IF Len(s) = 1 THEN <<>>
    ELSE IF IsDigit(s[2])
      THEN LET ds == DecimalRun(Tail(s), 3)
           IN  <<DecimalValue(ds) % 256>> \o LuaUnquote(SubSeq(s, Len(ds) + 2, Len(s)))
    ELSE <<NamedEscape(s[2])>> \o LuaUnquote(SubSeq(s, 3, Len(s)))

\* The names the model's texts use: the global the decoder assigns, a
\* function of the standard library, and two names no library defines.
NameZwData == <<122, 119, 95, 100, 97, 116, 97>>

NamePrint == <<112, 114, 105, 110, 116>>

NameX == <<Byte.x>>

NameNaN == <<78, 97, 78>>

\* A reference to a table of the Lua state.
LRef(id) == LV("ref", <<id>>)

\* Parse results: ok, the node read, and the index of the next token.
Parsed(node, i) == [ok |-> TRUE, node |-> node, i |-> i]

SyntaxError == [ok |-> FALSE, node |-> <<>>, i |-> 0]

TokAt(toks, i) == IF i >= 1 /\ i <= Len(toks) THEN toks[i].t ELSE "eof"

\* The rules of the grammar call one another through Parse(rule, ...),
\* defined after them; arg is the node or the list read so far.
RECURSIVE Parse(_, _, _, _)

\* exp ::= term {("+" | "-") term}
ParseExp(toks, i) ==
    LET l == Parse("term", toks, i, <<>>)
    IN  IF l.ok THEN Parse("binrest", toks, l.i, l.node) ELSE SyntaxError

ParseBinRest(toks, left, i) ==
    IF TokAt(toks, i) \in {"+", "-"}
      THEN LET r == Parse("term", toks, i + 1, <<>>)
           IN  IF r.ok
                 THEN Parse("binrest", toks, r.i,
                        [n |-> "binop", op |-> TokAt(toks, i), l |-> left, r |-> r.node])
                 ELSE SyntaxError
      ELSE Parsed(left, i)

\* term ::= "-" term | simpleexp
ParseTerm(toks, i) ==
    IF TokAt(toks, i) = "-"
      THEN LET e == Parse("term", toks, i + 1, <<>>)
           IN  IF e.ok THEN Parsed([n |-> "unop", e |-> e.node], e.i) ELSE SyntaxError
      ELSE Parse("simple", toks, i, <<>>)

\* primaryexp ::= Name | "(" exp ")"
ParsePrimary(toks, i) ==
    CASE TokAt(toks, i) = "name" -> Parsed([n |-> "name", id |-> toks[i].v], i + 1)
      [] TokAt(toks, i) = "(" ->
           LET e == Parse("exp", toks, i + 1, <<>>)
           IN  IF e.ok /\ TokAt(toks, e.i) = ")"
                 THEN Parsed([n |-> "paren", e |-> e.node], e.i + 1)
                 ELSE SyntaxError
      [] OTHER -> SyntaxError

\* simpleexp ::= Number | String | true | false | tableconstructor
\*             | primaryexp {suffix}
ParseSimple(toks, i) ==
    CASE TokAt(toks, i) = "num" ->
           Parsed([n |-> "const", val |-> LNumber(DecimalValue(toks[i].v))], i + 1)
      [] TokAt(toks, i) = "str" ->
           Parsed([n |-> "const", val |-> LString(LuaUnquote(toks[i].v))], i + 1)
      [] TokAt(toks, i) = "true" -> Parsed([n |-> "const", val |-> LTrue], i + 1)
      [] TokAt(toks, i) = "false" -> Parsed([n |-> "const", val |-> LFalse], i + 1)
      [] TokAt(toks, i) = "{" -> Parse("fields", toks, i + 1, <<>>)
      [] OTHER ->
           LET p == Parse("primary", toks, i, <<>>)
           IN  IF p.ok THEN Parse("suffixes", toks, p.i, p.node) ELSE SyntaxError

\* suffix ::= "[" exp "]" | args
ParseSuffixes(toks, node, i) ==
    CASE TokAt(toks, i) = "[" ->
           LET k == Parse("exp", toks, i + 1, <<>>)
           IN  IF k.ok /\ TokAt(toks, k.i) = "]"
                 THEN Parse("suffixes", toks, k.i + 1,
                            [n |-> "index", obj |-> node, key |-> k.node])
                 ELSE SyntaxError
      [] TokAt(toks, i) \in {"(", "{", "str"} ->
           LET a == Parse("args", toks, i, <<>>)
           IN  IF a.ok
                 THEN Parse("suffixes", toks, a.i,
                            [n |-> "call", fn |-> node, args |-> a.node])
                 ELSE SyntaxError
      [] OTHER -> Parsed(node, i)

\* args ::= "(" [explist] ")" | tableconstructor | String
ParseArgs(toks, i) ==
    CASE TokAt(toks, i) = "(" /\ TokAt(toks, i + 1) = ")" -> Parsed(<<>>, i + 2)
      [] TokAt(toks, i) = "(" /\ TokAt(toks, i + 1) # ")" ->
           LET es == Parse("explist", toks, i + 1, <<>>)
           IN  IF es.ok /\ TokAt(toks, es.i) = ")" THEN Parsed(es.node, es.i + 1)
               ELSE SyntaxError
      [] OTHER ->
           LET e == Parse("simple", toks, i, <<>>)
           IN  IF e.ok THEN Parsed(<<e.node>>, e.i) ELSE SyntaxError

\* explist ::= exp {"," exp}
ParseExpList(toks, i) ==
    LET e == Parse("exp", toks, i, <<>>)
    IN  IF ~e.ok THEN SyntaxError
        ELSE IF TokAt(toks, e.i) = ","
          THEN LET rest == Parse("explist", toks, e.i + 1, <<>>)
               IN  IF rest.ok THEN Parsed(<<e.node>> \o rest.node, rest.i)
                   ELSE SyntaxError
        ELSE Parsed(<<e.node>>, e.i)

\* tableconstructor ::= "{" [field {"," field} [","]] "}", from the token
\* after the brace; field ::= "[" exp "]" "=" exp | Name "=" exp | exp
ParseFields(toks, i, acc) ==
    IF TokAt(toks, i) = "}" THEN Parsed([n |-> "table", fields |-> acc], i + 1)
    ELSE
      LET field ==
            CASE TokAt(toks, i) = "[" ->
                   LET k == Parse("exp", toks, i + 1, <<>>)
                       v == Parse("exp", toks, k.i + 2, <<>>)
                   IN  IF k.ok /\ TokAt(toks, k.i) = "]" /\ TokAt(toks, k.i + 1) = "="
                          /\ v.ok
                         THEN Parsed([fk |-> "keyed", k |-> k.node, v |-> v.node], v.i)
                         ELSE SyntaxError
              [] TokAt(toks, i) = "name" /\ TokAt(toks, i + 1) = "=" ->
                   LET v == Parse("exp", toks, i + 2, <<>>)
                   IN  IF v.ok
                         THEN Parsed([fk |-> "keyed",
                                      k |-> [n |-> "const", val |-> LString(toks[i].v)],
                                      v |-> v.node], v.i)
                         ELSE SyntaxError
              [] OTHER ->
                   LET v == Parse("exp", toks, i, <<>>)
                   IN  IF v.ok
                         THEN Parsed([fk |-> "positional", k |-> v.node, v |-> v.node], v.i)
                         ELSE SyntaxError
      IN  IF ~field.ok THEN SyntaxError
          ELSE IF TokAt(toks, field.i) = ","
            THEN Parse("fields", toks, field.i + 1, Append(acc, field.node))
          ELSE IF TokAt(toks, field.i) = "}"
            THEN Parsed([n |-> "table", fields |-> Append(acc, field.node)], field.i + 1)
          ELSE SyntaxError

\* varlist ::= var {"," var}, after its first var; var ::= Name | exp "[" exp "]"
ParseTargets(toks, acc, i) ==
    IF TokAt(toks, i) = ","
      THEN LET p == Parse("primary", toks, i + 1, <<>>)
               t == Parse("suffixes", toks, p.i, p.node)
           IN  IF p.ok /\ t.ok /\ t.node.n \in {"name", "index"}
                 THEN Parse("targets", toks, t.i, Append(acc, t.node))
                 ELSE SyntaxError
      ELSE Parsed(acc, i)

\* stat ::= varlist "=" explist | functioncall ; laststat ::= return [explist]
ParseStat(toks, i) ==
    IF TokAt(toks, i) = "return"
      THEN IF TokAt(toks, i + 1) = "eof"
             THEN Parsed([s |-> "return", exps |-> <<>>], i + 1)
             ELSE LET es == Parse("explist", toks, i + 1, <<>>)
                  IN  IF es.ok /\ TokAt(toks, es.i) = "eof"
                        THEN Parsed([s |-> "return", exps |-> es.node], es.i)
                        ELSE SyntaxError
    ELSE
      LET p == Parse("primary", toks, i, <<>>)
          e == Parse("suffixes", toks, p.i, p.node)
      IN  IF ~(p.ok /\ e.ok) THEN SyntaxError
          ELSE IF e.node.n = "call" /\ TokAt(toks, e.i) \notin {"=", ","}
            THEN Parsed([s |-> "call", e |-> e.node], e.i)
          ELSE IF e.node.n \in {"name", "index"}
            THEN LET ts == Parse("targets", toks, e.i, <<e.node>>)
                     es == Parse("explist", toks, ts.i + 1, <<>>)
                 IN  IF ts.ok /\ TokAt(toks, ts.i) = "=" /\ es.ok
                       THEN Parsed([s |-> "assign", targets |-> ts.node,
                                    exps |-> es.node], es.i)
                       ELSE SyntaxError
          ELSE SyntaxError

\* chunk ::= {stat} [laststat]
ParseChunk(toks, i, acc) ==
    IF TokAt(toks, i) = "eof" THEN Parsed(acc, i)
    ELSE LET st == Parse("stat", toks, i, <<>>)
         IN  IF st.ok THEN Parse("chunk", toks, st.i, Append(acc, st.node))
             ELSE SyntaxError

Parse(rule, toks, i, arg) ==
    CASE rule = "exp" -> ParseExp(toks, i)
      [] rule = "binrest" -> ParseBinRest(toks, arg, i)
      [] rule = "term" -> ParseTerm(toks, i)
      [] rule = "primary" -> ParsePrimary(toks, i)
      [] rule = "simple" -> ParseSimple(toks, i)
      [] rule = "suffixes" -> ParseSuffixes(toks, arg, i)
      [] rule = "args" -> ParseArgs(toks, i)
      [] rule = "explist" -> ParseExpList(toks, i)
      [] rule = "fields" -> ParseFields(toks, i, arg)
      [] rule = "targets" -> ParseTargets(toks, arg, i)
      [] rule = "stat" -> ParseStat(toks, i)
      [] rule = "chunk" -> ParseChunk(toks, i, arg)

(* -------------------------- the Lua evaluator ------------------------- *)

\* A Lua state: its globals, its tables (a table value refers to one by
\* index), and whether it has evaluated anything but a literal: read a
\* variable, applied an operator or an index, called a function.
NewState == [g |-> [id \in {NamePrint} |-> LFunction], store |-> <<>>, ran |-> FALSE]

GetGlobal(env, id) == IF id \in DOMAIN env.g THEN env.g[id] ELSE LNil

Value(v, env) == [ok |-> TRUE, val |-> v, env |-> env]

RuntimeError(env) == [ok |-> FALSE, val |-> LNil, env |-> env]

Ran(env) == [env EXCEPT !.ran = TRUE]

IsNumeral(bytes) == bytes # <<>> /\ \A j \in 1..Len(bytes) : IsDigit(bytes[j])

\* Lua's coercion of an arithmetic operand: a number, or a string that
\* reads as one; LNil otherwise.
ToNumber(v) ==
    CASE v.kind = "num" -> v
      [] v.kind = "str" /\ IsNumeral(v.v) -> LNumber(DecimalValue(v.v))
      [] OTHER -> LNil

Arith(op, a, b) ==
    IF a.v[1] = 1 \/ b.v[1] = 1 THEN LNaN
    ELSE IF op = "+" THEN LNumber(a.v[2] + b.v[2])
    ELSE LNumber(a.v[2] - b.v[2])

\* t[k] = v on a table of the state: nil removes the entry.
SetField(m, k, v) ==
    IF v = LNil THEN [x \in (DOMAIN m) \ {k} |-> m[x]] ELSE Put(m, k, v)

ValidIndex(k) == k # LNil /\ k # LNaN

\* The evaluator's parts call one another through Run(what, ...), defined
\* after them; args holds what a part needs besides its nodes.
RECURSIVE Run(_, _, _, _)

Eval(e, env) ==
    CASE e.n = "const" -> Value(e.val, env)
      [] e.n = "name" -> Value(GetGlobal(env, e.id), Ran(env))
      [] e.n = "paren" -> Run("eval", e.e, <<>>, env)
      [] e.n = "unop" ->
           LET a == Run("eval", e.e, <<>>, env)
           IN  IF ~a.ok THEN a
               ELSE IF ToNumber(a.val) = LNil THEN RuntimeError(a.env)
               ELSE Value(Arith("-", LNumber(0), ToNumber(a.val)), a.env)
      [] e.n = "binop" ->
           LET a == Run("eval", e.l, <<>>, env)
               b == Run("eval", e.r, <<>>, a.env)
           IN  IF ~a.ok THEN a
               ELSE IF ~b.ok THEN b
               ELSE IF ToNumber(a.val) = LNil \/ ToNumber(b.val) = LNil
                 THEN RuntimeError(Ran(b.env))
               ELSE Value(Arith(e.op, ToNumber(a.val), ToNumber(b.val)), Ran(b.env))
      [] e.n = "index" ->
           LET o == Run("eval", e.obj, <<>>, env)
               k == Run("eval", e.key, <<>>, o.env)
           IN  IF ~o.ok THEN o
               ELSE IF ~k.ok THEN k
               ELSE IF o.val.kind = "ref"
                 THEN LET m == k.env.store[o.val.v[1]]
                      IN  Value(IF k.val \in DOMAIN m THEN m[k.val] ELSE LNil, Ran(k.env))
               ELSE IF o.val.kind = "str" THEN Value(LNil, Ran(k.env))
               ELSE RuntimeError(Ran(k.env))
      [] e.n = "call" ->
           LET f == Run("eval", e.fn, <<>>, env)
               as == Run("list", e.args, <<>>, f.env)
           IN  IF ~f.ok THEN f
               ELSE IF ~as.ok THEN RuntimeError(as.env)
               ELSE IF f.val.kind = "func" THEN Value(LNil, Ran(as.env))
               ELSE RuntimeError(Ran(as.env))
      [] e.n = "table" ->
           LET id == Len(env.store) + 1
           IN  Run("fields", e.fields, <<id, 1>>,
                   [env EXCEPT !.store = Append(@, EmptyTbl)])

EvalList(es, env) ==
    IF es = <<>> THEN [ok |-> TRUE, val |-> <<>>, env |-> env]
    ELSE LET a == Run("eval", Head(es), <<>>, env)
             rest == Run("list", Tail(es), <<>>, a.env)
         IN  IF ~a.ok THEN [ok |-> FALSE, val |-> <<>>, env |-> a.env]
             ELSE IF ~rest.ok THEN rest
             ELSE [ok |-> TRUE, val |-> <<a.val>> \o rest.val, env |-> rest.env]

\* The fields of a table constructor, in order; pos is the index the next
\* positional field gets.
EvalFields(fields, id, pos, env) ==
    IF fields = <<>> THEN Value(LRef(id), env)
    ELSE
      LET f == Head(fields)
      IN  IF f.fk = "positional"
            THEN LET v == Run("eval", f.v, <<>>, env)
                 IN  IF ~v.ok THEN v
                     ELSE Run("fields", Tail(fields), <<id, pos + 1>>,
                            [v.env EXCEPT !.store[id] = SetField(@, LNumber(pos), v.val)])
            ELSE LET k == Run("eval", f.k, <<>>, env)
                     v == Run("eval", f.v, <<>>, k.env)
                 IN  IF ~k.ok THEN k
                     ELSE IF ~v.ok THEN v
                     ELSE IF ~ValidIndex(k.val) THEN RuntimeError(v.env)
                     ELSE Run("fields", Tail(fields), <<id, pos>>,
                            [v.env EXCEPT !.store[id] = SetField(@, k.val, v.val)])

ValueAt(vals, j) == IF j <= Len(vals) THEN vals[j] ELSE LNil

\* The targets of an assignment, from the j-th on, get their values.
Assign(targets, vals, j, env) ==
    IF j > Len(targets) THEN Value(LNil, env)
    ELSE
      LET t == targets[j]
      IN  IF t.n = "name"
            THEN Run("assign", targets, <<vals, j + 1>>,
                        [env EXCEPT !.g = Put(@, t.id, ValueAt(vals, j))])
            ELSE LET o == Run("eval", t.obj, <<>>, env)
                     k == Run("eval", t.key, <<>>, o.env)
                 IN  IF ~o.ok THEN o
                     ELSE IF ~k.ok THEN k
                     ELSE IF o.val.kind # "ref" \/ ~ValidIndex(k.val)
                       THEN RuntimeError(Ran(k.env))
                     ELSE Run("assign", targets, <<vals, j + 1>>,
                            [k.env EXCEPT !.ran = TRUE,
                                          !.store[o.val.v[1]] =
                                              SetField(@, k.val, ValueAt(vals, j))])

\* The statements of a chunk, in order, until one fails or returns.
Exec(stats, env) ==
    IF stats = <<>> THEN Value(LNil, env)
    ELSE
      LET st == Head(stats)
      IN  CASE st.s = "call" ->
                 LET r == Run("eval", st.e, <<>>, env)
                 IN  IF r.ok THEN Run("exec", Tail(stats), <<>>, r.env) ELSE r
            [] st.s = "return" ->
                 LET r == Run("list", st.exps, <<>>, env)
                 IN  IF r.ok THEN Value(LNil, r.env) ELSE RuntimeError(r.env)
            [] st.s = "assign" ->
                 LET vs == Run("list", st.exps, <<>>, env)
                     r == Run("assign", st.targets, <<vs.val, 1>>, vs.env)
                 IN  IF ~vs.ok THEN RuntimeError(vs.env)
                     ELSE IF r.ok THEN Run("exec", Tail(stats), <<>>, r.env) ELSE r

Run(what, x, args, env) ==
    CASE what = "eval" -> Eval(x, env)
      [] what = "list" -> EvalList(x, env)
      [] what = "fields" -> EvalFields(x, args[1], args[2], env)
      [] what = "assign" -> Assign(x, args[1], args[2], env)
      [] what = "exec" -> Exec(x, env)

\* LState.DoString: the chunk is compiled whole, then run; a chunk that
\* does not parse runs nothing.
DoString(toks) ==
    LET chunk == Parse("chunk", toks, 1, <<>>)
    IN  IF ~chunk.ok THEN [ok |-> FALSE, syntax |-> TRUE, env |-> NewState]
        ELSE LET r == Run("exec", chunk.node, <<>>, NewState)
             IN  [ok |-> r.ok, syntax |-> FALSE, env |-> r.env]

\* strings.TrimPrefix(content, "return ")
TrimReturn(text) ==
    IF text # <<>> /\ Head(text) = P("return") THEN Tail(text) ELSE text

\* fmt.Sprintf("zw_data = (%s)", ...)
ZwDataChunk(text) ==
    <<Tok("name", NameZwData), P("="), P("(")>> \o TrimReturn(text) \o <<P(")")>>

(* ------------------------------- decoding ----------------------------- *)

DecodePoints == {"Unmarshal", "UnmarshalRead", "Reader.Read"}

\* A run decodes its input with each entry point in turn.
DecodeOrder == <<"Unmarshal", "UnmarshalRead", "Reader.Read">>

\* An LTable as the caller holds it: the tables of the state that made it
\* and the index of its own; NoTable is the nil *LTable.
TableOf(store, id) == [store |-> store, root |-> id]

NoTable == TableOf(<<>>, 0)

\* The table the caller passes to Unmarshal / UnmarshalRead as out.
OutBefore == TableOf(<<Put(EmptyTbl, LString(StrA), LTrue)>>, 1)

\* What a decode call returned: the error ("nil", "flate", "lua",
\* "typecast"), the table (Reader.Read), and whether the Lua state
\* evaluated anything but a literal.
Decoded(st, err, tbl, ran) == [st |-> st, err |-> err, tbl |-> tbl, ran |-> ran]

NoDecoded == Decoded("none", "nil", NoTable, FALSE)

\* The working state of a decode call: where it is, the inflated content
\* and the result of DoString.
DecIdle == [pc |-> "off", content |-> <<>>, lua |-> [ok |-> FALSE, syntax |-> FALSE,
                                                      env |-> NewState]]

DecEntry == CHOOSE e \in DecodePoints :
               \E i \in DOMAIN DecodeOrder :
                  /\ DecodeOrder[i] = e
                  /\ \A j \in DOMAIN DecodeOrder :
                        dresults[DecodeOrder[j]].st = "none" <=> j >= i

DecodesLeft == \E e \in DecodePoints : dresults[e].st = "none"

\* The function returns: Unmarshal and UnmarshalRead an error, Reader.Read
\* a table and an error.
DecodeReturn(r) ==
    /\ dret' = r
    /\ dresults' = [dresults EXCEPT ![DecEntry] = r]
    /\ dec' = [DecIdle EXCEPT !.pc = "ready"]

\* The caller hands the bytes Marshal returned to the decoder.
PassBytes ==
    /\ pc = "idle" /\ entry = "Marshal"
    /\ dec.pc = "off"
    /\ pc' = "decode"
    /\ input' = ret.bytes
    /\ dec' = [dec EXCEPT !.pc = "ready"]
    /\ UNCHANGED <<heap, entry, stack, visited, ret, results, firstErr, late,
                   outFails, edits, out, dret, dresults>>

\* Unmarshal / UnmarshalRead / Reader.Read is called: flate.NewReader.
DecodeCall ==
    /\ dec.pc = "ready"
    /\ DecodesLeft
    /\ dec' = [dec EXCEPT !.pc = "read"]
    /\ out' = OutBefore
    /\ dret' = NoDecoded
    /\ UNCHANGED <<encVars, input, edits, dresults>>

\* io.ReadAll(zr): a stream that ends before its final block is an error.
ReadAll ==
    /\ dec.pc = "read"
    /\ IF input.final
         THEN /\ dec' = [dec EXCEPT !.pc = "eval", !.content = input.data]
              /\ UNCHANGED <<dret, dresults>>
         ELSE DecodeReturn(Decoded("error", "flate", NoTable, FALSE))
    /\ UNCHANGED <<encVars, input, edits, out>>

\* l.DoString("zw_data = (" + TrimPrefix(content, "return ") + ")")
RunLua ==
    /\ dec.pc = "eval"
    /\ LET r == DoString(ZwDataChunk(dec.content))
       IN  IF r.ok
             THEN /\ dec' = [dec EXCEPT !.pc = "cast", !.lua = r]
                  /\ UNCHANGED <<dret, dresults>>
             ELSE DecodeReturn(Decoded("error", "lua", NoTable, r.env.ran))
    /\ UNCHANGED <<encVars, input, edits, out>>

\* Mutant: *out is assigned before the type assertion is looked at.
OutAfter_Unchecked(e, o, zw, store) ==
    IF e = "Reader.Read" THEN o
    ELSE TableOf(store, IF zw.kind = "ref" THEN zw.v[1] ELSE 0)

\* The caller's table after the call: *out = *zwData comes after the type
\* assertion's early return, and Reader.Read has no out parameter.
OutAfter(e, o, zw, store) ==
    IF e # "Reader.Read" /\ zw.kind = "ref" THEN TableOf(store, zw.v[1]) ELSE o

\* l.GetGlobal("zw_data").(*lua.LTable), then *out = *zwData (Unmarshal,
\* UnmarshalRead) or return zwData (Reader.Read).
Typecast ==
    /\ dec.pc = "cast"
    /\ LET env == dec.lua.env
           zw == GetGlobal(env, NameZwData)
       IN  /\ out' = OutAfter(DecEntry, out, zw, env.store)
           /\ IF zw.kind = "ref"
                THEN DecodeReturn(Decoded("ok", "nil",
                        IF DecEntry = "Reader.Read" THEN TableOf(env.store, zw.v[1])
                        ELSE NoTable, env.ran))
                ELSE DecodeReturn(Decoded("error", "typecast", NoTable, env.ran))
    /\ UNCHANGED <<encVars, input, edits>>

NextDec ==
    \/ DecodeCall
    \/ ReadAll
    \/ RunLua
    \/ Typecast

Init ==
    /\ heap = [t \in TableIds |-> EmptyTbl]
    /\ pc = "build"
    /\ entry = "none"
    /\ stack = <<>>
    /\ visited = {}
    /\ ret = NoResult
    /\ results = [e \in EntryPoints |-> Summary(NoResult)]
    /\ firstErr = NoErr
    /\ late = FALSE
    /\ outFails = "never"
    /\ input = Deflated(<<>>)
    /\ edits = 0
    /\ dec = DecIdle
    /\ out = OutBefore
    /\ dret = NoDecoded
    /\ dresults = [e \in DecodePoints |-> NoDecoded]

Next ==
    \/ RawSet(KeysEnc, ValsEnc)
    \/ \E e \in EntryPoints : Call(e)
    \/ Visit
    \/ Return
    \/ Finish

Spec == Init /\ [][Next]_vars

(* ------------------------------ round trip ---------------------------- *)

\* The keys and values of the tables whose encoding is decoded again:
\* the string "1", the number 1, a string of one control byte; a boolean,
\* a number, NaN, strings with a quote, a backslash, a newline and a
\* control byte, and references to the heap's tables.
KeysRT == {LString(<<Byte.zero + 1>>), LNumber(1), LString(<<Byte.ctl>>)}

ValsRT == {LTrue, LNumber(42), LNaN, LString(<<Byte.a>>), LString(<<Byte.quote>>),
           LString(<<Byte.backslash, Byte.n>>), LString(<<Byte.newline>>),
           LString(<<Byte.ctl>>)}
          \cup {LTableRef(t) : t \in TableIds}

NextRT ==
    \/ RawSet(KeysRT, ValsRT)
    \/ Call("Marshal")
    \/ Visit
    \/ Return
    \/ Finish
    \/ PassBytes
    \/ NextDec

SpecRT == Init /\ [][NextRT]_vars

(* ------------------------------ decode only --------------------------- *)

MaxEdits == 1

Str(bytes) == Tok("str", bytes)

Num(n) == Tok("num", Digits(n))

Name(id) == Tok("name", id)

\* Texts as Marshal writes them, a string at the top level, and texts with
\* an operator, a call and a second statement in them.
BaseTexts ==
    { <<P("return"), P("{"), P("}")>>,
      <<P("return"), P("{"), P("["), Str(StrA), P("]"), P("="), Str(StrA), P(","), P("}")>>,
      <<P("return"), P("{"), P("["), Num(1), P("]"), P("="), Num(1), P("+"), Num(1), P(","), P("}")>>,
      <<P("return"), Str(StrA)>>,
      <<P("{"), P("}"), P(")"), Name(NamePrint), P("(")>> }

\* The tokens an edit of a text inserts.
EditTokens == {P("{"), P("}"), P("["), P("]"), P("="), P(","), P("("), P(")"), P("@"),
               P("+"), P("return"), Name(NameX), Name(NamePrint), Str(StrA), Num(1)}

Inserts(t) == {SubSeq(t, 1, i) \o <<k>> \o SubSeq(t, i + 1, Len(t)) :
                 i \in 0..Len(t), k \in EditTokens}

Deletes(t) == {SubSeq(t, 1, i - 1) \o SubSeq(t, i + 1, Len(t)) : i \in 1..Len(t)}

\* A stream cut before its final block.
Truncated(data) == [data |-> data, final |-> FALSE]

Streams == {Deflated(t) : t \in BaseTexts} \cup {Truncated(t) : t \in BaseTexts}

\* The caller holds a byte stream from anywhere and decodes it.
InitDec ==
    /\ heap = [t \in TableIds |-> EmptyTbl]
    /\ pc = "decode"
    /\ entry = "Marshal"
    /\ stack = <<>>
    /\ visited = {}
    /\ ret = NoResult
    /\ results = [e \in EntryPoints |-> Summary(NoResult)]
    /\ firstErr = NoErr
    /\ late = FALSE
    /\ outFails = "never"
    /\ input \in Streams
    /\ edits = 0
    /\ dec = [DecIdle EXCEPT !.pc = "ready"]
    /\ out = OutBefore
    /\ dret = NoDecoded
    /\ dresults = [e \in DecodePoints |-> NoDecoded]

\* Before it is decoded the text of the stream is changed by a token: the
\* decoder's input is whatever the file holds.
Edit ==
    /\ dec.pc = "ready"
    /\ \A e \in DecodePoints : dresults[e].st = "none"
    /\ input.final
    /\ edits < MaxEdits
    /\ \E t \in Inserts(input.data) \cup Deletes(input.data) :
          input' = Deflated(t)
    /\ edits' = edits + 1
    /\ UNCHANGED <<encVars, dec, out, dret, dresults>>

NextEdit ==
    \/ Edit
    \/ NextDec

SpecDec == InitDec /\ [][NextEdit]_vars

(* --------------------------- a failing writer ------------------------- *)

\* The caller's writer is any io.Writer: it may fail, at any step.
InitW ==
    /\ heap = [t \in TableIds |-> EmptyTbl]
    /\ pc = "build"
    /\ entry = "none"
    /\ stack = <<>>
    /\ visited = {}
    /\ ret = NoResult
    /\ results = [e \in EntryPoints |-> Summary(NoResult)]
    /\ firstErr = NoErr
    /\ late = FALSE
    /\ outFails \in Faults
    /\ input = Deflated(<<>>)
    /\ edits = 0
    /\ dec = DecIdle
    /\ out = OutBefore
    /\ dret = NoDecoded
    /\ dresults = [e \in DecodePoints |-> NoDecoded]

SpecW == InitW /\ [][Next]_vars

(* ----------------------- vocabulary of the claims --------------------- *)

Done == pc = "idle"

\* The placeholder marker: a callable stored under the string key "is".
Placeholder(h, t) ==
    LString(StrIs) \in DOMAIN h[t] /\ h[t][LString(StrIs)] = LFunction

StringOrNumber(k) == k.kind \in {"str", "num"}

\* The tables the value switch would recurse into from t: the table values
\* of t that carry no callable "is" (validKeysOnly: under a key that passes
\* the key switch).
Nested(h, t, validKeysOnly) ==
    {u \in TableIds : \E k \in DOMAIN h[t] :
        /\ h[t][k] = LTableRef(u)
        /\ ~Placeholder(h, u)
        /\ (validKeysOnly => StringOrNumber(k))}

RECURSIVE Closure(_, _, _)
Closure(h, S, validKeysOnly) ==
    LET S2 == S \cup UNION {Nested(h, t, validKeysOnly) : t \in S}
    IN  IF S2 = S THEN S ELSE Closure(h, S2, validKeysOnly)

\* The tables the encoder's traversal reaches: the root and every nested
\* non-placeholder table.
Traversed(h) == Closure(h, {RootId}, TRUE)

\* t contains itself, directly or through nested non-placeholder tables.
ContainsItself(h, t) == t \in Closure(h, Nested(h, t, FALSE), FALSE)

\* The traversal meets a table that is still open.
TraversalCyclic(h) ==
    \E t \in Traversed(h) : t \in Closure(h, Nested(h, t, TRUE), TRUE)

InvalidKeyEntries(h) ==
    {<<t, k>> \in Entries(h) : t \in Traversed(h) /\ ~StringOrNumber(k)}

UnsupportedEntries(h) ==
    {<<t, k>> \in Entries(h) :
        t \in Traversed(h) /\ StringOrNumber(k)
        /\ h[t][k].kind \notin {"table", "str", "bool", "num"}}

RECURSIVE Contains(_, _)
\* sub occurs in text as a run of consecutive tokens.
Contains(text, sub) ==
    \E i \in 0..(Len(text) - Len(sub)) : SubSeq(text, i + 1, i + Len(sub)) = sub

(* ------------------------------- C1 ----------------------------------- *)

\* The decode call of entry point e has just returned.
Returned(e) ==
    /\ dec.pc = "ready"
    /\ dresults[e].st # "none"
    /\ \A i, j \in DOMAIN DecodeOrder :
          (DecodeOrder[i] = e /\ j > i) => dresults[DecodeOrder[j]].st = "none"

\* Every table the root leads to is free of itself.
Acyclic(h) == \A t \in Linked(h) : t \notin LinkedFrom(h, {u \in TableIds :
                                        \E k \in DOMAIN h[t] : h[t][k] = LTableRef(u)})

\* Keys are strings or numbers; values booleans, numbers, strings, tables.
RoundTripTable(h) ==
    /\ Acyclic(h)
    /\ \A t \in Linked(h) : \A k \in DOMAIN h[t] :
          /\ StringOrNumber(k)
          /\ h[t][k].kind \in {"bool", "num", "str", "table"}

RECURSIVE DeepEquals(_, _, _, _)
\* Key-order-insensitive structural equality of table t of the heap and
\* table id of a Lua state: the same keys, equal leaves, equal subtables.
DeepEquals(h, t, store, id) ==
    /\ id \in DOMAIN store
    /\ DOMAIN h[t] = DOMAIN store[id]
    /\ \A k \in DOMAIN h[t] :
          IF h[t][k].kind = "table"
            THEN /\ store[id][k].kind = "ref"
                 /\ DeepEquals(h, h[t][k].v[1], store, store[id][k].v[1])
            ELSE store[id][k] = h[t][k]

\* C1: for every acyclic table with string or number keys and boolean,
\* number, string or table values, Unmarshal of the bytes Marshal returned
\* succeeds and yields a table structurally equal to the original.
C1_RoundTrip ==
    (Returned("Unmarshal") /\ pc = "decode" /\ RoundTripTable(heap))
       => /\ dret.st = "ok"
          /\ DeepEquals(heap, RootId, out.store, out.root)

(* ------------------------------- C3 ----------------------------------- *)

\* The text holds a name (a variable or a function to call), an operator
\* or a parenthesis: none of them is in the literal grammar.
ForeignContent(text) ==
    \E i \in DOMAIN text : \/ text[i].t = "name"
                           \/ text[i] \in {P("+"), P("("), P(")")}

\* C3: a decompressed text that holds a function call, a variable
\* reference, an operator or content after the closing brace makes every
\* decode entry point return an error, and nothing of it is evaluated.
C3_NoEvaluation ==
    \A e \in DecodePoints :
       (dresults[e].st # "none" /\ input.final /\ ForeignContent(input.data))
          => (dresults[e].st = "error" /\ ~dresults[e].ran)

(* ------------------------------- C4 ----------------------------------- *)

Count(text, tok) == Cardinality({i \in DOMAIN text : text[i] = tok})

\* Texts no Lua chunk can hold: a character that starts no token, or
\* braces or brackets that do not pair up.
Malformed(text) ==
    \/ Count(text, P("@")) > 0
    \/ Count(text, P("{")) # Count(text, P("}"))
    \/ Count(text, P("[")) # Count(text, P("]"))

\* A single string or number, with or without the leading return.
ScalarTopLevel(text) ==
    \E tok \in {text[i] : i \in DOMAIN text} :
       /\ tok.t \in {"str", "num"}
       /\ text \in {<<tok>>, <<P("return"), tok>>}

RECURSIVE Rows(_, _, _), TableLiterals(_, _)
Rows(h, t, keys) ==
    IF keys = {} THEN {<<>>}
    ELSE UNION {
           LET val == h[t][k]
               vals == IF val.kind # "table" THEN {ScalarLiteral(val)}
                       ELSE IF Placeholder(h, val.v[1]) THEN {<<Tok("str", ManualReplace)>>}
                       ELSE TableLiterals(h, val.v[1])
           IN  UNION {{KeyLiteral(k) \o <<P("=")>> \o v \o <<P(",")>> \o rest :
                         rest \in Rows(h, t, keys \ {k})} : v \in vals}
           : k \in keys}

TableLiterals(h, t) == {<<P("{")>> \o rows \o <<P("}")>> : rows \in Rows(h, t, DOMAIN h[t])}

\* C8: the text of a successful encode is `return` and then the braces of
\* the root with one [key]=value, row for each entry, in some order, a
\* comma after every row; `return` occurs once, at the start; the empty
\* table gives `return {}`.
C8_LiteralShape ==
    (Done /\ ret.st = "ok")
       => /\ ret.text \in {<<P("return")>> \o lit : lit \in TableLiterals(heap, RootId)}
          /\ Count(ret.text, P("return")) = 1
          /\ Head(ret.text) = P("return")
          /\ (DOMAIN heap[RootId] = {} => ret.text = <<P("return"), P("{"), P("}")>>)

C8_Witness ==
    /\ Done /\ ret.st = "ok" /\ entry = "Writer.Write"
    /\ Cardinality(DOMAIN heap[RootId]) >= 2
    /\ \E u \in Nested(heap, RootId, TRUE) : DOMAIN heap[u] # {}

(* ------------------------------- C2 ----------------------------------- *)

\* C2 as stated: Marshal / MarshalWrite of a table that contains itself
\* returns the circular-reference error.
C2_Original ==
    (Done /\ HasVisitedSet(entry) /\ ContainsItself(heap, RootId))
        => (ret.st = "error" /\ ret.err.kind = "cyclic")

\* C2, amended: Marshal / MarshalWrite of a table that contains itself never
\* recurses deeper than the number of tables, ends, and returns an error;
\* the error is the circular-reference error whenever no traversed entry has
\* an invalid key or an unsupported value.
C2_CycleDetected ==
    /\ (pc = "pack" /\ HasVisitedSet(entry)) =>
          /\ Len(stack) <= NTables
          /\ visited = {stack[i].tbl : i \in 1..Len(stack)}
    /\ (Done /\ HasVisitedSet(entry) /\ ContainsItself(heap, RootId)) =>
          /\ ret.st = "error"
          /\ (InvalidKeyEntries(heap) = {} /\ UnsupportedEntries(heap) = {})
                => ret.err.kind = "cyclic"

\* A cycle through a second table is reported as a circular reference.
C2_Witness ==
    /\ Done /\ entry = "Marshal"
    /\ RootId \notin Nested(heap, RootId, FALSE)
    /\ ContainsItself(heap, RootId)
    /\ ret.st = "error" /\ ret.err.kind = "cyclic"

(* ------------------------------- C5 ----------------------------------- *)

\* A pair is never written without its key literal: every "=" of every open
\* builder follows a "]".
KeysWritten ==
    \A i \in 1..Len(stack) : \A j \in 1..Len(stack[i].b) :
        stack[i].b[j].t = "=" => (j > 1 /\ stack[i].b[j - 1].t = "]")

\* C5 as stated: a traversed entry with a key that is neither a string nor
\* a number makes Marshal fail with the invalid-key-type error, and the
\* entry is never emitted.
C5_Original ==
    /\ KeysWritten
    /\ (Done /\ HasVisitedSet(entry) /\ InvalidKeyEntries(heap) # {})
          => (ret.st = "error" /\ ret.err.kind = "invalidkey" /\ ret.text = <<>>)

\* C5, amended: a traversed entry with a key that is neither a string nor a
\* number makes Marshal fail with an error, and the entry is never emitted;
\* the error is the invalid-key-type error whenever no traversed entry has
\* an unsupported value or leads back to a table that is still open.
C5_InvalidKeyRejected ==
    /\ KeysWritten
    /\ (Done /\ HasVisitedSet(entry) /\ InvalidKeyEntries(heap) # {}) =>
          /\ ret.st = "error"
          /\ ret.text = <<>>
          /\ (UnsupportedEntries(heap) = {} /\ ~TraversalCyclic(heap))
                => ret.err.kind = "invalidkey"

\* The invalid key sits in a nested table, after a sibling that was written.
C5_Witness ==
    /\ Done /\ entry = "Marshal"
    /\ \E e \in InvalidKeyEntries(heap) : e[1] # RootId
    /\ ret.st = "error" /\ ret.err.kind = "invalidkey" /\ ret.err.wraps # <<>>

(* ------------------------------- C6 ----------------------------------- *)

\* C6 as stated: a traversed entry whose value is not a table, string,
\* boolean or number makes Marshal fail with the unsupported-value-type
\* error naming the key of such an entry.
C6_Original ==
    (Done /\ HasVisitedSet(entry) /\ UnsupportedEntries(heap) # {}) =>
        /\ ret.st = "error"
        /\ ret.err.kind = "unsupported"
        /\ \E e \in UnsupportedEntries(heap) : ret.err.key = KeyLiteral(e[2])

\* C6, amended: a traversed entry whose value is not a table, string,
\* boolean or number (a callable under "is" in the root table included)
\* makes Marshal fail with an error; whenever no traversed entry has an
\* invalid key or leads back to a table that is still open, it is the
\* unsupported-value-type error and names the key of such an entry.
C6_UnsupportedRejected ==
    (Done /\ HasVisitedSet(entry) /\ UnsupportedEntries(heap) # {}) =>
        /\ ret.st = "error"
        /\ (InvalidKeyEntries(heap) = {} /\ ~TraversalCyclic(heap)) =>
              /\ ret.err.kind = "unsupported"
              /\ \E e \in UnsupportedEntries(heap) : ret.err.key = KeyLiteral(e[2])

\* A callable under "is" in the root table is reported under that key.
C6_Witness ==
    /\ Done /\ entry = "Marshal"
    /\ RawGetString(heap[RootId], StrIs) = LFunction
    /\ ret.st = "error" /\ ret.err.kind = "unsupported"
    /\ ret.err.key = KeyLiteral(LString(StrIs))

(* ------------------------------- C7 ----------------------------------- *)

\* The entries of traversed tables whose value is a table with a callable
\* "is".
ObjectEntries(h) ==
    {<<t, k>> \in Entries(h) :
        /\ t \in Traversed(h) /\ StringOrNumber(k)
        /\ h[t][k].kind = "table" /\ Placeholder(h, h[t][k].v[1])}

\* C7: a table value with a callable "is" is never descended into nor put
\* in the visited set, and is written as "MANUAL_REPLACE"; whatever it holds
\* (invalid keys, unsupported values, a reference to an ancestor), the
\* encode succeeds when nothing outside such tables is at fault.
C7_Placeholder ==
    /\ \A i \in 2..Len(stack) : ~Placeholder(heap, stack[i].tbl)
    /\ \A t \in visited : t = RootId \/ ~Placeholder(heap, t)
    /\ (/\ Done /\ ret.st # "none"
        /\ InvalidKeyEntries(heap) = {} /\ UnsupportedEntries(heap) = {}
        /\ ~TraversalCyclic(heap)) =>
          /\ ret.st = "ok"
          /\ \A e \in ObjectEntries(heap) :
                Contains(ret.text,
                         Pair(KeyLiteral(e[2]), <<Tok("str", ManualReplace)>>))

\* The placeholder table holds an invalid key or refers back to the root.
C7_Witness ==
    /\ Done /\ entry = "Marshal" /\ ret.st = "ok"
    /\ \E e \in ObjectEntries(heap) :
          LET u == heap[e[1]][e[2]].v[1]
          IN  /\ u # RootId
              /\ \E k \in DOMAIN heap[u] : ~StringOrNumber(k) \/ heap[u][k] = LTableRef(RootId)

(* ------------------------------- C9 ----------------------------------- *)

\* C9: once a table has been encoded through every entry point, the three
\* calls agree on success versus failure and on the tokens written.
C9_EntryPointsAgree ==
    (\A e \in EntryPoints : results[e].st # "none") =>
        \A e1, e2 \in EntryPoints : results[e1] = results[e2]

(* ------------------------------- C10 ---------------------------------- *)

\* C10: a failed Marshal returns the first error raised in traversal order,
\* and no entry is processed after it.
C10_FailFast ==
    (Done /\ HasVisitedSet(entry) /\ ret.st = "error") =>
        (ret.err = ret.first /\ ~ret.late)

(* ------------------------------- C11 ---------------------------------- *)

\* C11: when MarshalWrite or Writer.Write returns nil the underlying writer
\* holds a finalized stream of exactly the text, and a failure of the
\* underlying writer while the text is written, flushed or the stream is
\* finalized is returned to the caller.
C11_Finalized ==
    (Done /\ entry \in {"MarshalWrite", "Writer.Write"} /\ ret.st \in {"ok", "error"}) =>
        /\ ret.st = "ok" => (ret.bytes.final /\ ret.bytes.data = ret.text)
        /\ outFails # "never" => ret.st = "error"

(* ------------------------------- C12 ---------------------------------- *)

\* The tables whose stringPack has been entered and has not returned.
Open == {stack[i].tbl : i \in 1..Len(stack)}

\* A table that two entries of the traversal hold and that is not under
\* itself.
Shared(h, u) ==
    /\ u \in Traversed(h) /\ ~Placeholder(h, u)
    /\ u \notin Closure(h, Nested(h, u, TRUE), TRUE)
    /\ Cardinality({<<t, k>> \in Entries(h) :
           t \in Traversed(h) /\ StringOrNumber(k) /\ h[t][k] = LTableRef(u)}) >= 2

\* C12: during a traversal of Marshal / MarshalWrite the visited set is
\* exactly the set of tables open on the recursion stack, each of them open
\* once; it is empty when the call has returned, with or without an error;
\* the circular-reference error is returned, or met, only when a table of
\* the traversal is under itself, so a table held from two places is written
\* at each place.
C12_StackDiscipline ==
    /\ (pc = "pack" /\ HasVisitedSet(entry)) =>
          /\ visited = Open
          /\ \A i, j \in 1..Len(stack) : stack[i].tbl = stack[j].tbl => i = j
    /\ Done => visited = {}
    /\ (Done /\ HasVisitedSet(entry) /\ ret.st = "error") =>
          (("cyclic" \in {ret.err.kind, ret.first.kind}) => TraversalCyclic(heap))
    /\ (Done /\ HasVisitedSet(entry) /\ ret.st \in {"ok", "error"}
          /\ ~TraversalCyclic(heap)
          /\ InvalidKeyEntries(heap) = {} /\ UnsupportedEntries(heap) = {}) =>
          /\ ret.st = "ok"
          /\ ret.text \in {<<P("return")>> \o lit : lit \in TableLiterals(heap, RootId)}
          /\ \A u \in TableIds : Shared(heap, u) =>
                \E l1, l2 \in TableLiterals(heap, u) :
                    \E i, j \in 1..Len(ret.text) :
                        /\ i < j
                        /\ j + Len(l2) - 1 <= Len(ret.text)
                        /\ SubSeq(ret.text, i, i + Len(l1) - 1) = l1
                        /\ SubSeq(ret.text, j, j + Len(l2) - 1) = l2

\* Marshal has returned the text of a root that holds one non-empty table
\* under two keys.
C12_Witness ==
    /\ Done /\ entry = "Marshal" /\ ret.st = "ok"
    /\ visited = {}
    /\ \E u \in TableIds \ {RootId} : Shared(heap, u) /\ DOMAIN heap[u] # {}

====
